---- MODULE Spec2Model ----
(***************************************************************************)
(* A model of src/src/index.js: the Cloudflare worker that answers "has    *)
(* pull request N landed in release R", with its KV cache gate             *)
(* (checkPRInRelease) and its GitHub resolver (fetchPRReleaseStatus).      *)
(*                                                                         *)
(* JavaScript strings are sequences of one-character strings, so that      *)
(* endsWith, includes and the template literals are computed and not       *)
(* assumed.  Every await of the source is a step boundary: other requests  *)
(* and the clock may move between two steps of one request.                *)
(***************************************************************************)
EXTENDS Integers, Sequences, FiniteSets, TLC

VARIABLES
    store,      \* env.PR_CACHE: cache key -> JSON text ("" when the key is absent)
    now,        \* the wall clock, in milliseconds
    advances,   \* how often the clock has moved (bounds the model)
    load,       \* the size of the requests received so far (bounds the model)
    pc,         \* per request: the await the handler is suspended at
    req,        \* per request: the request received
    idx,        \* per request: position of the for loop in pr_numbers
    results,    \* per request: the results object of the handler
    response,   \* per request: the Response returned
    call,       \* per request: the locals of the running checkPRInRelease call
    lastHit,    \* per request: its latest return from the cache (history)
    upstream,   \* what GitHub answers, when it is held fixed
    probe       \* the inputs and outputs of the functions applied on their own

vars ==
    <<store, now, advances, load, pc, req, idx, results, response, call, lastHit,
      upstream, probe>>

(***************************************************************************)
(* Bounds of the model.                                                    *)
(***************************************************************************)
MaxLoad == 2
MaxAdvances == 2

\* the requests in flight, numbered in the order they arrive
Handlers == {1, 2}
PRNumbers == {1, 2}

(***************************************************************************)
(* Strings.                                                                *)
(***************************************************************************)
S_dev == <<"d", "e", "v">>
S_v1 == <<"v", "1">>
S_esphome == <<"e", "s", "p", "h", "o", "m", "e">>
S_sha == <<"a", "b">>
S_title == <<"f", "x">>

\* String.prototype.endsWith
endsWith(s, suffix) ==
    /\ Len(suffix) <= Len(s)
    /\ SubSeq(s, Len(s) - Len(suffix) + 1, Len(s)) = suffix

\* includes that looks for sub at the start of s only
includes_PrefixOnly(s, sub) ==
    Len(sub) <= Len(s) /\ SubSeq(s, 1, Len(sub)) = sub

\* String.prototype.includes
includes(s, sub) ==
    \E i \in 1..(Len(s) - Len(sub) + 1) : SubSeq(s, i, i + Len(sub) - 1) = sub

DigitChars == <<"0", "1", "2", "3", "4", "5", "6", "7", "8", "9">>

\* ${prNumber}: the decimal digits of a non-negative integer
RECURSIVE NumberToString(_)
NumberToString(n) ==
    IF n < 10 THEN <<DigitChars[n + 1]>>
    ELSE NumberToString(n \div 10) \o <<DigitChars[(n % 10) + 1]>>

\* `${repoOwner}/${repoName}/pr-${prNumber}/release-${releaseTag}`
cacheKey(repoOwner, repoName, prNumber, releaseTag) ==
    repoOwner \o <<"/">> \o repoName \o <<"/", "p", "r", "-">>
        \o NumberToString(prNumber)
        \o <<"/", "r", "e", "l", "e", "a", "s", "e", "-">> \o releaseTag

(***************************************************************************)
(* Time: new Date(), toISOString() and new Date(string).                   *)
(***************************************************************************)
MsPerMinute == 1000 * 60
MsPerHour == 1000 * 60 * 60
MsPerDay == 24 * MsPerHour

\* Date.prototype.toISOString: <<day, hour, minute, millisecond of the minute>>
toISOString(t) ==
    <<t \div MsPerDay, (t % MsPerDay) \div MsPerHour,
      (t % MsPerHour) \div MsPerMinute, t % MsPerMinute>>

\* new Date(isoString), as milliseconds
DateParse(iso) ==
    iso[1] * MsPerDay + iso[2] * MsPerHour + iso[3] * MsPerMinute + iso[4]

(***************************************************************************)
(* JSON.stringify and JSON.parse of a Status Record.  The text is the      *)
(* sequence of <<name, value>> members in property insertion order.        *)
(***************************************************************************)
FieldOrder ==
    <<"status", "error", "pr_number", "release_tag", "message", "target_type",
      "merge_commit_sha", "pr_merged_at", "is_in_release", "is_cherry_picked",
      "cached_at">>

JSONstringify(obj) ==
    LET RECURSIVE Members(_)
        Members(i) ==
            IF i > Len(FieldOrder) THEN <<>>
            ELSE (IF FieldOrder[i] \in DOMAIN obj
                    THEN <<<<FieldOrder[i], obj[FieldOrder[i]]>>>>
                    ELSE <<>>) \o Members(i + 1)
    IN Members(1)

JSONparse(text) ==
    [f \in {text[i][1] : i \in DOMAIN text} |->
        text[CHOOSE i \in DOMAIN text : text[i][1] = f][2]]

\* kv.get of an absent key gives null; null and "" are both falsy at line 71
KvNull == <<>>

(***************************************************************************)
(* The GitHub API, as the worker sees it: a response is a status code and  *)
(* a parsed body.  The model draws each response from these sets, so the   *)
(* upstream state may differ from one call to the next.                    *)
(***************************************************************************)
NoBody == [none |-> TRUE]
NoResponse == [status |-> 0, body |-> NoBody]

S_mergedAt == <<"t", "0">>
S_targetSha == <<"c", "d">>

\* commit messages: one quoting the merge SHA, one quoting the title, one
\* holding the SHA's characters apart, one unrelated
M_sha == <<"z", "a", "b", "z">>
M_title == <<"f", "x", "z">>
M_apart == <<"a", "z", "b">>
M_other == <<"z", "z">>

PRResponses ==
    { [status |-> 200,
       body |-> [merged |-> m, merge_commit_sha |-> S_sha, title |-> S_title,
                 merged_at |-> S_mergedAt]] : m \in BOOLEAN }
    \cup { [status |-> 404, body |-> NoBody] }

TargetResponses ==
    { [status |-> 200, body |-> [object |-> [sha |-> S_targetSha]]],
      [status |-> 404, body |-> NoBody] }

\* the comparisons upstream may answer: a relation and the commits of the range
Comparisons ==
    { [status |-> "ahead", commits |-> <<M_title>>],
      [status |-> "identical", commits |-> <<>>],
      [status |-> "behind", commits |-> <<>>],
      [status |-> "behind", commits |-> <<M_apart, M_other>>],
      [status |-> "diverged", commits |-> <<M_title>>],
      [status |-> "diverged", commits |-> <<M_other, M_sha>>] }

CompareResponses ==
    { [status |-> 200, body |-> c] : c \in Comparisons }
    \cup { [status |-> 500, body |-> NoBody] }

\* Response.ok
ok(resp) == resp.status \in 200..299

\* GitHub's state: free to change from one call to the next, or held fixed at
\* one answer to each of the three calls
AnyUpstream == [fixed |-> FALSE]

FixedUpstreams ==
    { [fixed |-> TRUE, pr |-> p, ref |-> r, compare |-> c] :
        p \in PRResponses, r \in TargetResponses, c \in CompareResponses }

\* an upstream that answers the pull-request fetch anew each time although
\* its state is held fixed
PRAnswers_Unfixed(u) == PRResponses

\* the responses the three fetches may get from upstream u
PRAnswers(u) == IF u.fixed THEN {u.pr} ELSE PRResponses

TargetAnswers(u) == IF u.fixed THEN {u.ref} ELSE TargetResponses

CompareAnswers(u) == IF u.fixed THEN {u.compare} ELSE CompareResponses

(***************************************************************************)
(* fetchPRReleaseStatus.                                                   *)
(***************************************************************************)
\* the moving branch taken to be the ref named 'dev' and no other
isDevBranch_OnlyDevItself(releaseTag) == releaseTag = S_dev

isDevBranch(releaseTag) == endsWith(releaseTag, S_dev)

targetType(releaseTag) == IF isDevBranch(releaseTag) THEN "branch" ELSE "tag"

\* the three URLs, after `https://api.github.com/repos/${repoOwner}/${repoName}/`
prUrl(prNumber) ==
    <<"p", "u", "l", "l", "s", "/">> \o NumberToString(prNumber)

targetUrl(releaseTag) ==
    IF isDevBranch(releaseTag)
    THEN <<"g", "i", "t", "/", "r", "e", "f", "/", "h", "e", "a", "d", "s", "/">>
            \o S_dev
    ELSE <<"g", "i", "t", "/", "r", "e", "f", "/", "t", "a", "g", "s", "/">>
            \o releaseTag

compareUrl(mergeCommitSha, targetSha) ==
    <<"c", "o", "m", "p", "a", "r", "e", "/">> \o mergeCommitSha
        \o <<".", ".", ".">> \o targetSha

\* the four error returns: the message is the template literal's fixed part
\* and the response's status code
errorRecord(what, resp, prNumber, releaseTag) ==
    [status |-> "error", error |-> <<what, resp.status>>,
     pr_number |-> prNumber, release_tag |-> releaseTag]

targetErrorText(releaseTag) ==
    IF isDevBranch(releaseTag) THEN "Failed to fetch branch: "
    ELSE "Failed to fetch release tag: "

notMergedRecord(prNumber, releaseTag) ==
    [status |-> "not-merged", pr_number |-> prNumber,
     release_tag |-> releaseTag, message |-> "PR is not merged yet"]

\* 'identical' left out of the relations that count as in the release
isInRelease_OnlyAhead(compareData) == compareData.status = "ahead"

isInRelease(compareData) == compareData.status \in {"ahead", "identical"}

\* the heuristic evaluated whether or not direct ancestry held
isCherryPicked_AlwaysEvaluated(prData, compareData) ==
    \E i \in DOMAIN compareData.commits :
        \/ includes(compareData.commits[i], prData.merge_commit_sha)
        \/ includes(compareData.commits[i], prData.title)

isCherryPicked(prData, compareData) ==
    IF isInRelease(compareData) THEN FALSE
    ELSE \E i \in DOMAIN compareData.commits :
            \/ includes(compareData.commits[i], prData.merge_commit_sha)
            \/ includes(compareData.commits[i], prData.title)

resolvedRecord(prNumber, releaseTag, prData, compareData) ==
    [status |-> IF isCherryPicked(prData, compareData) \/ isInRelease(compareData)
                THEN "merged" ELSE "not-yet",
     pr_number |-> prNumber,
     release_tag |-> releaseTag,
     target_type |-> targetType(releaseTag),
     merge_commit_sha |-> prData.merge_commit_sha,
     pr_merged_at |-> prData.merged_at,
     is_in_release |-> isInRelease(compareData),
     is_cherry_picked |-> isCherryPicked(prData, compareData)]

\* the merged flag of the pull request ignored
returnsAfterPR_IgnoresMerged(prResponse) == ~ok(prResponse)

\* the resolver returns after the pull-request fetch
returnsAfterPR(prResponse) == ~ok(prResponse) \/ ~prResponse.body.merged

\* the resolver returns after the ref fetch
returnsAfterTarget(targetResponse) == ~ok(targetResponse)

\* the 'error' records of a merged pull request given its merge_commit_sha
fetchPRReleaseStatus_ErrorKeepsSha(prNumber, releaseTag, prResponse, targetResponse, compareResponse) ==
    LET withSha(r) ==
            [f \in DOMAIN r \cup {"merge_commit_sha"} |->
                IF f = "merge_commit_sha" THEN prResponse.body.merge_commit_sha
                ELSE r[f]]
    IN IF ~ok(prResponse)
       THEN errorRecord("Failed to fetch PR: ", prResponse, prNumber, releaseTag)
       ELSE IF ~prResponse.body.merged
       THEN notMergedRecord(prNumber, releaseTag)
       ELSE IF ~ok(targetResponse)
       THEN withSha(errorRecord(targetErrorText(releaseTag), targetResponse,
                                prNumber, releaseTag))
       ELSE IF ~ok(compareResponse)
       THEN withSha(errorRecord("Failed to compare commits: ", compareResponse,
                                prNumber, releaseTag))
       ELSE resolvedRecord(prNumber, releaseTag, prResponse.body, compareResponse.body)

\* the record fetchPRReleaseStatus returns, given the responses it awaited
\* (NoResponse for a call it did not make)
fetchPRReleaseStatus(prNumber, releaseTag, prResponse, targetResponse, compareResponse) ==
    IF ~ok(prResponse)
    THEN errorRecord("Failed to fetch PR: ", prResponse, prNumber, releaseTag)
    ELSE IF ~prResponse.body.merged
    THEN notMergedRecord(prNumber, releaseTag)
    ELSE IF ~ok(targetResponse)
    THEN errorRecord(targetErrorText(releaseTag), targetResponse, prNumber, releaseTag)
    ELSE IF ~ok(compareResponse)
    THEN errorRecord("Failed to compare commits: ", compareResponse, prNumber, releaseTag)
    ELSE resolvedRecord(prNumber, releaseTag, prResponse.body, compareResponse.body)

(***************************************************************************)
(* checkPRInRelease: the cache gate of lines 70-89.                        *)
(***************************************************************************)
StaleHours == 24

\* the window closed a moment late: <= for <
hoursSinceCachedBelow_Inclusive(cachedData, t, hours) ==
    t - DateParse(cachedData.cached_at) <= hours * MsPerHour

\* (now - cachedTime) / (1000 * 60 * 60) < 24, without the division
hoursSinceCachedBelow(cachedData, t, hours) ==
    t - DateParse(cachedData.cached_at) < hours * MsPerHour

\* merged records put under the staleness window as well
returnsCached_MergedExpires(cached, releaseTag, t) ==
    /\ cached # KvNull
    /\ hoursSinceCachedBelow(JSONparse(cached), t, StaleHours)

\* the gate as the design document has it: any other status is reused
returnsCached_OthersReused(cached, releaseTag, t) ==
    /\ cached # KvNull
    /\ LET cachedData == JSONparse(cached)
       IN \/ cachedData.status = "merged"
          \/ ~(cachedData.status = "not-yet" \/ endsWith(releaseTag, S_dev))
          \/ hoursSinceCachedBelow(cachedData, t, StaleHours)

\* the moving-branch test of line 82 dropped
returnsCached_NoDevCheck(cached, releaseTag, t) ==
    /\ cached # KvNull
    /\ LET cachedData == JSONparse(cached)
       IN \/ cachedData.status = "merged"
          \/ /\ cachedData.status = "not-yet"
             /\ hoursSinceCachedBelow(cachedData, t, StaleHours)

\* TRUE when the call returns cachedData at line 78 or line 85
returnsCached(cached, releaseTag, t) ==
    /\ cached # KvNull
    /\ LET cachedData == JSONparse(cached)
       IN \/ cachedData.status = "merged"
          \/ /\ cachedData.status = "not-yet" \/ endsWith(releaseTag, S_dev)
             /\ hoursSinceCachedBelow(cachedData, t, StaleHours)

\* the stamp taken from a clock that stands at the epoch
stamped_Epoch(result, t) ==
    [f \in DOMAIN result \cup {"cached_at"} |->
        IF f = "cached_at" THEN toISOString(0) ELSE result[f]]

\* result.cached_at = new Date().toISOString()
stamped(result, t) ==
    [f \in DOMAIN result \cup {"cached_at"} |->
        IF f = "cached_at" THEN toISOString(t) ELSE result[f]]

(***************************************************************************)
(* Requests.  An absent JSON member is Undefined.                          *)
(***************************************************************************)
Undefined == [defined |-> FALSE]
Some(v) == [defined |-> TRUE, value |-> v]

ReleaseTags == {S_dev, S_v1}

RECURSIVE ArraysOf(_, _)
ArraysOf(S, n) ==
    IF n = 0 THEN {<<>>}
    ELSE ArraysOf(S, n - 1)
            \cup {Append(a, x) : a \in {b \in ArraysOf(S, n - 1) : Len(b) = n - 1}, x \in S}

\* pr_numbers: absent (Undefined), present but no array, or an array of numbers
NotAnArray == [defined |-> TRUE, isArray |-> FALSE]
Array(a) == [defined |-> TRUE, isArray |-> TRUE, value |-> a]

\* bodies with both required members, and bodies lacking one
Bodies(maxLen) ==
    LET body(tag, numbers) ==
            [release_tag |-> tag, pr_numbers |-> numbers,
             repo_owner |-> Undefined, repo_name |-> Undefined]
    IN {body(Some(t), Array(a)) : t \in ReleaseTags, a \in ArraysOf(PRNumbers, maxLen)}
       \cup {body(Undefined, Array(<<1>>)), body(Some(<<>>), Array(<<1>>)),
             body(Some(S_v1), Undefined), body(Some(S_v1), NotAnArray)}

\* body texts that lines 28-29 cannot take apart: request.json() rejects a
\* text that is not JSON (the empty text included), and the destructuring of
\* line 29 throws on the JSON text null
NotJson == [unreadable |-> "not json"]
JsonNull == [unreadable |-> "null"]

throwsOnRead(body) == "unreadable" \in DOMAIN body

NoRequestBody == [none |-> TRUE]
NoRequest == [method |-> "", body |-> NoRequestBody]

\* the requests a client may send, with at most maxLen pull-request numbers
Requests(maxLen) ==
    {[method |-> m, body |-> NoRequestBody] : m \in {"OPTIONS", "GET"}}
    \cup {[method |-> "POST", body |-> b] : b \in Bodies(maxLen) \cup {NotJson, JsonNull}}

\* const { ..., repo_owner = 'esphome', repo_name = 'esphome' } = body
withDefault(member, default) == IF member.defined THEN member.value ELSE default

\* !release_tag || !pr_numbers || !Array.isArray(pr_numbers)
missingFields(body) ==
    \/ ~body.release_tag.defined
    \/ body.release_tag.value = <<>>
    \/ ~body.pr_numbers.defined
    \/ ~body.pr_numbers.isArray

(***************************************************************************)
(* The state of one request and of its running checkPRInRelease call.      *)
(***************************************************************************)
NoRecord == [status |-> "undefined"]
NoResults == [n \in {} |-> NoRecord]
NoResponseYet == [status |-> 0, body |-> "none"]

\* the locals of a running checkPRInRelease call past its cache gate: the
\* text kv.get gave, the URLs fetched so far, the responses awaited and the
\* resolver's result
NoCall ==
    [cached |-> KvNull,
     requests |-> <<>>,
     prResponse |-> NoResponse,
     targetResponse |-> NoResponse,
     compareResponse |-> NoResponse,
     result |-> NoRecord]

prNumbersOf(h) == req[h].body.pr_numbers.value
releaseTagOf(h) == req[h].body.release_tag.value
repoOwnerOf(h) == withDefault(req[h].body.repo_owner, S_esphome)
repoNameOf(h) == withDefault(req[h].body.repo_name, S_esphome)
prNumberOf(h) == prNumbersOf(h)[idx[h]]
cacheKeyOf(h) == cacheKey(repoOwnerOf(h), repoNameOf(h), prNumberOf(h), releaseTagOf(h))

\* a return at line 78 or 85: the text read and the time of line 74
NoHit == [cached |-> KvNull, at |-> 0]

AllKeys ==
    {cacheKey(S_esphome, S_esphome, n, t) : n \in PRNumbers, t \in ReleaseTags}

\* nothing probed
NoProbe == [a |-> <<>>, b |-> <<>>, keys |-> <<>>, target |-> <<>>, gate |-> <<>>]

\* the worker before its first request: an empty cache
Start ==
    /\ store = [k \in AllKeys |-> KvNull]
    /\ now = 0
    /\ advances = 0
    /\ load = 0
    /\ pc = [h \in Handlers |-> "idle"]
    /\ req = [h \in Handlers |-> NoRequest]
    /\ idx = [h \in Handlers |-> 0]
    /\ results = [h \in Handlers |-> NoResults]
    /\ response = [h \in Handlers |-> NoResponseYet]
    /\ call = [h \in Handlers |-> NoCall]
    /\ lastHit = [h \in Handlers |-> NoHit]

Init ==
    /\ Start
    /\ upstream = AnyUpstream
    /\ probe = NoProbe

\* results[prNumber] = record
setResult(res, prNumber, record) ==
    [n \in DOMAIN res \cup {prNumber} |-> IF n = prNumber THEN record ELSE res[n]]

\* checkPRInRelease returns `record` to the for loop of lines 43-52, which
\* goes on to the next number or returns the 200 response of line 54
Returns(h, record) ==
    /\ results' = [results EXCEPT ![h] = setResult(@, prNumberOf(h), record)]
    /\ call' = [call EXCEPT ![h] = NoCall]
    /\ IF idx[h] < Len(prNumbersOf(h))
       THEN /\ idx' = [idx EXCEPT ![h] = idx[h] + 1]
            /\ pc' = [pc EXCEPT ![h] = "kv.get"]
            /\ UNCHANGED response
       ELSE /\ pc' = [pc EXCEPT ![h] = "done"]
            /\ response' = [response EXCEPT ![h] = [status |-> 200, body |-> "results"]]
            /\ UNCHANGED idx

Respond(h, status, body) ==
    /\ response' = [response EXCEPT ![h] = [status |-> status, body |-> body]]
    /\ pc' = [pc EXCEPT ![h] = "done"]
    /\ UNCHANGED idx

\* what a request counts for in the model's bound: its pull-request numbers,
\* and one when it has none
sizeOf(r) ==
    IF /\ r.method = "POST"
       /\ ~throwsOnRead(r.body)
       /\ ~missingFields(r.body)
       /\ r.body.pr_numbers.value # <<>>
    THEN Len(r.body.pr_numbers.value) ELSE 1

\* fetch(request, env, ctx), lines 12-28: the request arrives, and a POST is
\* suspended at request.json() with its body not read yet
Receive(h) ==
    /\ pc[h] = "idle"
    /\ \A g \in Handlers : g < h => pc[g] # "idle"
    /\ load < MaxLoad
    /\ \E r \in Requests(MaxLoad - load) :
        /\ req' = [req EXCEPT ![h] = r]
        /\ load' = load + sizeOf(r)
        /\ IF r.method = "OPTIONS" THEN Respond(h, 200, "empty")
           ELSE IF r.method # "POST" THEN Respond(h, 405, "error")
           ELSE /\ pc' = [pc EXCEPT ![h] = "request.json"]
                /\ UNCHANGED <<idx, response>>
    /\ UNCHANGED <<store, now, advances, results, call, lastHit, upstream, probe>>

\* lines 28-44: request.json() gives the body, which is taken apart and
\* validated; the loop starts and is suspended in its first kv.get
ReadBody(h) ==
    /\ pc[h] = "request.json"
    /\ ~throwsOnRead(req[h].body)
    /\ IF missingFields(req[h].body) THEN Respond(h, 400, "error")
       ELSE IF req[h].body.pr_numbers.value = <<>> THEN Respond(h, 200, "results")
       ELSE /\ pc' = [pc EXCEPT ![h] = "kv.get"]
            /\ idx' = [idx EXCEPT ![h] = 1]
            /\ UNCHANGED response
    /\ UNCHANGED <<store, now, advances, load, req, results, call, lastHit, upstream, probe>>

\* checkPRInRelease, lines 66-89: kv.get resolves and the gate is evaluated
KvGet(h) ==
    /\ pc[h] = "kv.get"
    /\ LET cached == store[cacheKeyOf(h)]
       IN IF returnsCached(cached, releaseTagOf(h), now)
          THEN /\ Returns(h, JSONparse(cached))
               /\ lastHit' = [lastHit EXCEPT ![h] = [cached |-> cached, at |-> now]]
          ELSE /\ call' = [call EXCEPT ![h].cached = cached,
                                       ![h].requests = <<prUrl(prNumberOf(h))>>]
               /\ pc' = [pc EXCEPT ![h] = "fetch.pr"]
               /\ UNCHANGED <<idx, results, response, lastHit>>
    /\ UNCHANGED <<store, now, advances, load, req, upstream, probe>>

\* the resolver returns; its result is stamped (line 95) and kv.put issued (line 98)
Resolved(h, c) ==
    /\ call' = [call EXCEPT ![h] =
                  [c EXCEPT !.result =
                      stamped(fetchPRReleaseStatus(prNumberOf(h), releaseTagOf(h),
                                  c.prResponse, c.targetResponse, c.compareResponse),
                              now)]]
    /\ pc' = [pc EXCEPT ![h] = "kv.put"]

\* a response whose body has not been read
Unread(resp) == [resp EXCEPT !.body = NoBody]

\* the bodies response.json() may give for a response of that status
BodiesOf(answers, status) == {r.body : r \in {x \in answers : x.status = status}}

\* fetchPRReleaseStatus, lines 114-125: the pull-request fetch answers; a
\* response that is ok is suspended at prResponse.json()
FetchPR(h) ==
    /\ pc[h] = "fetch.pr"
    /\ \E resp \in PRAnswers(upstream) :
        LET c == [call[h] EXCEPT !.prResponse = Unread(resp)]
        IN IF ~ok(resp)
           THEN Resolved(h, c)
           ELSE /\ call' = [call EXCEPT ![h] = c]
                /\ pc' = [pc EXCEPT ![h] = "json.pr"]
    /\ UNCHANGED <<store, now, advances, load, req, idx, results, response, lastHit, upstream, probe>>

\* lines 125-164: prResponse.json() gives prData; the branch or tag fetch is
\* issued for a merged pull request
JsonPR(h) ==
    /\ pc[h] = "json.pr"
    /\ \E body \in BodiesOf(PRAnswers(upstream), call[h].prResponse.status) :
        LET c == [call[h] EXCEPT !.prResponse.body = body]
        IN IF returnsAfterPR(c.prResponse)
           THEN Resolved(h, c)
           ELSE /\ call' = [call EXCEPT ![h] =
                              [c EXCEPT !.requests = Append(@, targetUrl(releaseTagOf(h)))]]
                /\ pc' = [pc EXCEPT ![h] = "fetch.ref"]
    /\ UNCHANGED <<store, now, advances, load, req, idx, results, response, lastHit, upstream, probe>>

\* the ref fetch tried a second time when it does not succeed
FetchTarget_RetriesOnce(h) ==
    /\ pc[h] = "fetch.ref"
    /\ \E resp \in TargetAnswers(upstream) :
        LET c == [call[h] EXCEPT !.targetResponse = Unread(resp)]
        IN IF returnsAfterTarget(resp) /\ Len(call[h].requests) < 3
           THEN /\ call' = [call EXCEPT ![h].requests =
                              Append(@, targetUrl(releaseTagOf(h)))]
                /\ UNCHANGED pc
           ELSE IF returnsAfterTarget(resp)
           THEN Resolved(h, c)
           ELSE /\ call' = [call EXCEPT ![h] = c]
                /\ pc' = [pc EXCEPT ![h] = "json.ref"]
    /\ UNCHANGED <<store, now, advances, load, req, idx, results, response, lastHit, upstream, probe>>

\* lines 147-158 / 164-175: the branch or tag fetch answers; a response that
\* is ok is suspended at its json()
FetchTarget(h) ==
    /\ pc[h] = "fetch.ref"
    /\ \E resp \in TargetAnswers(upstream) :
        LET c == [call[h] EXCEPT !.targetResponse = Unread(resp)]
        IN IF returnsAfterTarget(resp)
           THEN Resolved(h, c)
           ELSE /\ call' = [call EXCEPT ![h] = c]
                /\ pc' = [pc EXCEPT ![h] = "json.ref"]
    /\ UNCHANGED <<store, now, advances, load, req, idx, results, response, lastHit, upstream, probe>>

\* lines 158-182 / 175-182: json() gives the reference, and the compare is
\* issued
JsonTarget(h) ==
    /\ pc[h] = "json.ref"
    /\ \E body \in BodiesOf(TargetAnswers(upstream), call[h].targetResponse.status) :
        LET c == [call[h] EXCEPT !.targetResponse.body = body]
        IN /\ call' = [call EXCEPT ![h] =
                         [c EXCEPT !.requests =
                             Append(@, compareUrl(c.prResponse.body.merge_commit_sha,
                                                  body.object.sha))]]
           /\ pc' = [pc EXCEPT ![h] = "fetch.compare"]
    /\ UNCHANGED <<store, now, advances, load, req, idx, results, response, lastHit, upstream, probe>>

\* lines 182-193: the comparison answers; a response that is ok is suspended
\* at compareResponse.json()
Compare(h) ==
    /\ pc[h] = "fetch.compare"
    /\ \E resp \in CompareAnswers(upstream) :
        LET c == [call[h] EXCEPT !.compareResponse = Unread(resp)]
        IN IF ~ok(resp)
           THEN Resolved(h, c)
           ELSE /\ call' = [call EXCEPT ![h] = c]
                /\ pc' = [pc EXCEPT ![h] = "json.compare"]
    /\ UNCHANGED <<store, now, advances, load, req, idx, results, response, lastHit, upstream, probe>>

\* lines 193-223: compareResponse.json() gives compareData and the resolver
\* returns its record
JsonCompare(h) ==
    /\ pc[h] = "json.compare"
    /\ \E body \in BodiesOf(CompareAnswers(upstream), call[h].compareResponse.status) :
        Resolved(h, [call[h] EXCEPT !.compareResponse.body = body])
    /\ UNCHANGED <<store, now, advances, load, req, idx, results, response, lastHit, upstream, probe>>

\* lines 98-100: kv.put resolves and checkPRInRelease returns result
KvPut(h) ==
    /\ pc[h] = "kv.put"
    /\ store' = [store EXCEPT ![cacheKeyOf(h)] = JSONstringify(call[h].result)]
    /\ Returns(h, call[h].result)
    /\ UNCHANGED <<now, advances, load, req, lastHit, upstream, probe>>

\* the awaits of a checkPRInRelease call, those of its resolver included
ResolverAwaits ==
    {"fetch.pr", "json.pr", "fetch.ref", "json.ref", "fetch.compare", "json.compare"}

CallAwaits == {"kv.get", "kv.put"} \cup ResolverAwaits

\* request h is somewhere an exception can reach the catch from: at an await
\* of a call, whose promise may reject, or at request.json() with a body that
\* lines 28-29 throw on
mayThrow(h) ==
    \/ pc[h] \in CallAwaits
    \/ pc[h] = "request.json" /\ throwsOnRead(req[h].body)

\* the catch taking back what the request has written so far
Raise_RollsBack(h) ==
    /\ mayThrow(h)
    /\ pc' = [pc EXCEPT ![h] = "done"]
    /\ response' = [response EXCEPT ![h] = [status |-> 500, body |-> "error"]]
    /\ call' = [call EXCEPT ![h] = NoCall]
    /\ results' = [results EXCEPT ![h] = NoResults]
    /\ store' = [k \in AllKeys |->
                    IF \E i \in 1..idx[h] :
                          k = cacheKey(repoOwnerOf(h), repoNameOf(h),
                                       prNumbersOf(h)[i], releaseTagOf(h))
                    THEN KvNull ELSE store[k]]
    /\ UNCHANGED <<now, advances, load, req, idx, lastHit, upstream, probe>>

\* an awaited promise rejects (request.json, kv.get, fetch, response.json or
\* kv.put) or line 29 throws: the exception leaves checkPRInRelease and the
\* for loop, whose results are dropped, and the catch of lines 55-60 answers
\* 500
Raise(h) ==
    /\ mayThrow(h)
    /\ pc' = [pc EXCEPT ![h] = "done"]
    /\ response' = [response EXCEPT ![h] = [status |-> 500, body |-> "error"]]
    /\ call' = [call EXCEPT ![h] = NoCall]
    /\ results' = [results EXCEPT ![h] = NoResults]
    /\ UNCHANGED <<store, now, advances, load, req, idx, lastHit, upstream, probe>>

\* time passes: first to a minute before the staleness window closes, then
\* minute by minute across its end
ClockStep(n) ==
    IF n = 0 THEN StaleHours * MsPerHour - MsPerMinute ELSE MsPerMinute

Advance ==
    /\ advances < MaxAdvances
    /\ now' = now + ClockStep(advances)
    /\ advances' = advances + 1
    /\ UNCHANGED <<store, load, pc, req, idx, results, response, call, lastHit, upstream, probe>>

Next ==
    \/ \E h \in Handlers :
        \/ Receive(h)
        \/ ReadBody(h)
        \/ KvGet(h)
        \/ FetchPR(h)
        \/ JsonPR(h)
        \/ FetchTarget(h)
        \/ JsonTarget(h)
        \/ Compare(h)
        \/ JsonCompare(h)
        \/ KvPut(h)
        \/ Raise(h)
    \/ Advance

Spec == Init /\ [][Next]_vars

(***************************************************************************)
(* The worker with GitHub's state held fixed: the same steps, each fetch   *)
(* answered from the one state chosen at the start.                        *)
(***************************************************************************)
FixedInit ==
    /\ Start
    /\ upstream \in FixedUpstreams
    /\ probe = NoProbe

FixedSpec == FixedInit /\ [][Next]_vars

(***************************************************************************)
(* The functions of the worker applied on their own, to inputs the         *)
(* requests above do not carry: owners, names and refs with '/' and with   *)
(* the key's own fragments in them, and refs with 'dev' at the end, in     *)
(* front and alone.                                                        *)
(***************************************************************************)
S_a == <<"a">>
S_a_b == <<"a", "/", "b">>
S_c == <<"c">>
S_b_c == <<"b", "/", "c">>
S_c_pr1_release_v ==
    <<"c", "/", "p", "r", "-", "1", "/", "r", "e", "l", "e", "a", "s", "e", "-", "v">>
S_w == <<"w">>
S_v_pr2_release_w ==
    <<"v", "/", "p", "r", "-", "2", "/", "r", "e", "l", "e", "a", "s", "e", "-", "w">>
S_1dev == <<"1", "d", "e", "v">>
S_devs == <<"d", "e", "v", "s">>

ProbeOwners == {S_a, S_a_b}
ProbeNames == {S_c, S_b_c, S_c_pr1_release_v}
ProbeTags == {S_w, S_v_pr2_release_w, S_dev, S_1dev, S_devs}

\* the arguments of checkPRInRelease
ProbeTuples ==
    { [repoOwner |-> o, repoName |-> n, prNumber |-> i, releaseTag |-> t] :
        o \in ProbeOwners, n \in ProbeNames, i \in PRNumbers, t \in ProbeTags }

ProbeInit ==
    /\ Start
    /\ upstream = AnyUpstream
    /\ probe \in { [NoProbe EXCEPT !.a = x, !.b = y] : x, y \in ProbeTuples }

keyOf(x) == cacheKey(x.repoOwner, x.repoName, x.prNumber, x.releaseTag)

\* line 67, for two calls of checkPRInRelease
BuildKeys ==
    /\ probe.keys = <<>>
    /\ probe' = [probe EXCEPT !.keys = <<keyOf(probe.a), keyOf(probe.b)>>]
    /\ UNCHANGED <<store, now, advances, load, pc, req, idx, results, response,
                   call, lastHit, upstream>>

\* lines 140-178 and 218: the reference fetched for the first call's ref, and
\* the target_type of the record when the fetches succeed
ChooseTarget ==
    /\ probe.target = <<>>
    /\ \E p \in {r \in PRResponses : ~returnsAfterPR(r)},
          t \in {r \in TargetResponses : ~returnsAfterTarget(r)},
          c \in {r \in CompareResponses : ok(r)} :
        probe' = [probe EXCEPT !.target =
                    <<targetUrl(probe.a.releaseTag),
                      fetchPRReleaseStatus(probe.a.prNumber, probe.a.releaseTag,
                                           p, t, c).target_type>>]
    /\ UNCHANGED <<store, now, advances, load, pc, req, idx, results, response,
                   call, lastHit, upstream>>

\* lines 71-89, for the first call's ref and an 'error' or 'not-merged' record
\* cached this instant: such a record is returned only through line 82
GateOnTarget ==
    /\ probe.gate = <<>>
    /\ \E r \in {errorRecord("Failed to fetch PR: ", [status |-> 404, body |-> NoBody],
                             probe.a.prNumber, probe.a.releaseTag),
                 notMergedRecord(probe.a.prNumber, probe.a.releaseTag)} :
        probe' = [probe EXCEPT !.gate =
                    <<returnsCached(JSONstringify(stamped(r, now)),
                                    probe.a.releaseTag, now)>>]
    /\ UNCHANGED <<store, now, advances, load, pc, req, idx, results, response,
                   call, lastHit, upstream>>

ProbeNext == BuildKeys \/ ChooseTarget \/ GateOnTarget

ProbeSpec == ProbeInit /\ [][ProbeNext]_vars

(***************************************************************************)
(* Vocabulary of the properties.                                           *)
(***************************************************************************)
Statuses == {"error", "not-merged", "not-yet", "merged"}

\* the status of a stored text, "absent" for a key without a record
statusOf(text) == IF text = KvNull THEN "absent" ELSE JSONparse(text).status

\* milliseconds from the record's cached_at to time t
ageAt(text, t) == t - DateParse(JSONparse(text).cached_at)

StaleMs == 24 * 60 * 60 * 1000

\* request h takes a step out of the await of kv.get without an exception:
\* the cache gate of its running call is evaluated in this step
GateStep(h) ==
    /\ pc[h] = "kv.get"
    /\ pc'[h] # "kv.get" \/ idx'[h] # idx[h]
    /\ response'[h].status # 500

\* ... and the call returns the record it read, with no upstream call
GateHit(h) ==
    /\ pc'[h] \in {"kv.get", "done"}
    /\ prNumberOf(h) \in DOMAIN results'[h]
    /\ results'[h][prNumberOf(h)] = JSONparse(store[cacheKeyOf(h)])
    /\ store' = store

\* ... and the call starts an upstream resolution
GateMiss(h) ==
    /\ pc'[h] = "fetch.pr"
    /\ call'[h].requests = <<prUrl(prNumberOf(h))>>

\* a call of request h is past its gate: resolving upstream or writing the result
Resolving(h) == pc[h] \in ResolverAwaits \cup {"kv.put"}

(***************************************************************************)
(* C1: once the store holds a record with status 'merged' under a key, no  *)
(* later step starts an upstream fetch for that key or replaces the        *)
(* record, whatever the interleaving of the calls.  Two calls that both    *)
(* read the key before the record was written refute it: the slower one    *)
(* writes its own result over the merged record.                           *)
(***************************************************************************)
C1_MergedRecordIsImmutable ==
    [][\A k \in AllKeys :
        statusOf(store[k]) = "merged" =>
            /\ store'[k] = store[k]
            /\ \A h \in Handlers :
                (pc[h] = "kv.get" /\ cacheKeyOf(h) = k) => pc'[h] # "fetch.pr"]_vars

(***************************************************************************)
(* C2: a call whose kv.get reads a record with status 'merged' returns     *)
(* that record as it is, whatever the record's age and whatever the        *)
(* target ref, and neither calls upstream nor writes the store.            *)
(***************************************************************************)
C2_MergedIsServedFromCache ==
    [][\A h \in Handlers :
        (GateStep(h) /\ statusOf(store[cacheKeyOf(h)]) = "merged") => GateHit(h)]_vars

\* a merged record was served from the cache a full staleness window after
\* it was written, for a target ending in 'dev'
C2_Witness ==
    \E h \in Handlers :
        /\ statusOf(lastHit[h].cached) = "merged"
        /\ ageAt(lastHit[h].cached, lastHit[h].at) >= StaleMs
        /\ endsWith(JSONparse(lastHit[h].cached).release_tag, S_dev)

(***************************************************************************)
(* C3, as claimed: for a target ref that does not end in 'dev', a call     *)
(* that reads a 'not-merged' or 'error' record returns it, calls nothing   *)
(* upstream and leaves the store alone.                                    *)
(***************************************************************************)
C3_OtherStatusesAreReused ==
    [][\A h \in Handlers :
        ( /\ GateStep(h)
          /\ statusOf(store[cacheKeyOf(h)]) \in {"not-merged", "error"}
          /\ ~endsWith(releaseTagOf(h), S_dev) ) => GateHit(h)]_vars

(***************************************************************************)
(* C3, amended: for a target ref that does not end in 'dev', a call that   *)
(* reads a 'not-merged' or 'error' record never returns it: whatever the   *)
(* record's age the call starts an upstream resolution, and the kv.put     *)
(* that ends the call writes the new result over the record.               *)
(***************************************************************************)
C3_OtherStatusesAreRefetched ==
    [][\A h \in Handlers :
        /\ ( /\ GateStep(h)
             /\ statusOf(store[cacheKeyOf(h)]) \in {"not-merged", "error"}
             /\ ~endsWith(releaseTagOf(h), S_dev) ) => GateMiss(h)
        /\ ( /\ pc[h] = "kv.put"
             /\ pc'[h] # "kv.put" \/ idx'[h] # idx[h]
             /\ response'[h].status # 500 )
           => store'[cacheKeyOf(h)] = JSONstringify(call[h].result)]_vars

\* a call is resolving upstream although it read an 'error' or 'not-merged'
\* record written in this very instant, for a tag
C3_Witness ==
    \E h \in Handlers :
        /\ Resolving(h)
        /\ statusOf(call[h].cached) \in {"not-merged", "error"}
        /\ ~endsWith(releaseTagOf(h), S_dev)
        /\ ageAt(call[h].cached, now) = 0

(***************************************************************************)
(* C4: a call that reads a record whose status is not 'merged', and whose  *)
(* status is 'not-yet' or whose target ref ends in 'dev', returns the      *)
(* record exactly when less than 24 hours have passed since its cached_at; *)
(* from 24 hours on it resolves the key again.                             *)
(***************************************************************************)
C4_StalenessWindow ==
    [][\A h \in Handlers :
        LET text == store[cacheKeyOf(h)]
        IN ( /\ GateStep(h)
             /\ statusOf(text) \in Statuses \ {"merged"}
             /\ statusOf(text) = "not-yet" \/ endsWith(releaseTagOf(h), S_dev) )
           => IF ageAt(text, now) < StaleMs THEN GateHit(h) ELSE GateMiss(h)]_vars

\* a call is resolving again a 'not-yet' record that it read exactly 24 hours
\* after the record was written
C4_Witness ==
    \E h \in Handlers :
        /\ Resolving(h)
        /\ statusOf(call[h].cached) = "not-yet"
        /\ ageAt(call[h].cached, now) = StaleMs

(***************************************************************************)
(* C5, as claimed: a call that reads an 'error' record less than 24 hours  *)
(* after the record was written is answered from that record, with no      *)
(* upstream call.                                                          *)
(***************************************************************************)
C5_ErrorIsRetriedOnlyWhenStale ==
    [][\A h \in Handlers :
        LET text == store[cacheKeyOf(h)]
        IN ( /\ GateStep(h)
             /\ statusOf(text) = "error"
             /\ ageAt(text, now) < StaleMs ) => GateHit(h)]_vars

(***************************************************************************)
(* C5, amended: for a target ref ending in 'dev', a call that reads an     *)
(* 'error' record is answered from it exactly when less than 24 hours have *)
(* passed since its cached_at, and resolves upstream again from 24 hours   *)
(* on; for any other target ref the call resolves upstream again whatever  *)
(* the record's age.                                                       *)
(***************************************************************************)
C5_ErrorRetryPolicy ==
    [][\A h \in Handlers :
        LET text == store[cacheKeyOf(h)]
        IN (GateStep(h) /\ statusOf(text) = "error")
           => IF endsWith(releaseTagOf(h), S_dev) /\ ageAt(text, now) < StaleMs
              THEN GateHit(h) ELSE GateMiss(h)]_vars

\* an 'error' record for a target ending in 'dev' was served from the cache
\* a minute before the staleness window closed
C5_Witness ==
    \E h \in Handlers :
        /\ statusOf(lastHit[h].cached) = "error"
        /\ ageAt(lastHit[h].cached, lastHit[h].at) = StaleMs - 60 * 1000
        /\ endsWith(JSONparse(lastHit[h].cached).release_tag, S_dev)

(***************************************************************************)
(* Vocabulary of the resolver's properties.  At the await of kv.put the    *)
(* call still holds the responses its resolver awaited and the record the  *)
(* resolver returned.                                                      *)
(***************************************************************************)
InResolver(h) == pc[h] \in ResolverAwaits

\* the resolver of request h compared the commits of a merged pull request
Compared(h) ==
    /\ pc[h] = "kv.put"
    /\ call[h].prResponse.status = 200
    /\ call[h].prResponse.body.merged
    /\ call[h].targetResponse.status = 200
    /\ call[h].compareResponse.status = 200

\* sub occurs in s: some slice of s from i to j is sub
Contains(s, sub) ==
    \E i \in 1..(Len(s) + 1) : \E j \in (i - 1)..Len(s) :
        /\ j - i + 1 = Len(sub)
        /\ \A k \in 1..Len(sub) : s[i + k - 1] = sub[k]

\* the upstream calls the resolver made that did not succeed
FailedResponses(c) ==
    {r \in {c.prResponse, c.targetResponse, c.compareResponse} :
        r.status # 0 /\ r.status \notin 200..299}

(***************************************************************************)
(* C6: fetchPRReleaseStatus fails closed.  Whatever the outcome of an      *)
(* upstream call, the resolver either goes on to its next call or returns  *)
(* a record whose status is one of the four; it never leaves by an         *)
(* exception; and when a call does not succeed the record is an 'error'    *)
(* record with that call's status code and the echoed inputs.  A fetch     *)
(* that rejects refutes it: nothing in lines 103-224 catches it.           *)
(***************************************************************************)
C6_ResolverFailsClosed ==
    [][\A h \in Handlers :
        (InResolver(h) /\ pc'[h] # pc[h]) =>
            /\ pc'[h] \in ResolverAwaits \cup {"kv.put"}
            /\ pc'[h] = "kv.put" =>
                /\ call'[h].result.status \in Statuses
                /\ \A r \in FailedResponses(call'[h]) :
                    /\ call'[h].result.status = "error"
                    /\ call'[h].result.error[2] = r.status
                    /\ call'[h].result.pr_number = prNumberOf(h)
                    /\ call'[h].result.release_tag = releaseTagOf(h)]_vars

(***************************************************************************)
(* C7: a valid POST ends in a 200 response that maps every requested       *)
(* number to a record.  An upstream failure while one number is resolved   *)
(* gives that number an 'error' record and nothing else: the request goes  *)
(* on, and since the call touches no key of the store but its own, the     *)
(* later numbers get what they would get without it.  (A failure of the    *)
(* cache store itself is the unexpected error of the 500 response and is   *)
(* left out here.)  A fetch that rejects refutes it: it ends the whole     *)
(* request with a 500 response, which is the failure C6 is about.          *)
(***************************************************************************)
C7_BatchIsAnsweredInFull ==
    [][\A h \in Handlers :
        /\ (InResolver(h) /\ pc'[h] # pc[h])
           => /\ pc'[h] # "done"
              /\ pc'[h] = "kv.put" => call'[h].result.status \in Statuses
        /\ ( /\ pc[h] # "done"
             /\ pc'[h] = "done"
             /\ req'[h].method = "POST"
             /\ ~throwsOnRead(req'[h].body)
             /\ ~missingFields(req'[h].body)
             /\ pc[h] \notin {"kv.get", "kv.put"} \/ response'[h].status # 500 )
           => /\ response'[h].status = 200
              /\ DOMAIN results'[h] =
                    {req'[h].body.pr_numbers.value[i] :
                        i \in DOMAIN req'[h].body.pr_numbers.value}
              /\ \A n \in DOMAIN results'[h] : results'[h][n].status \in Statuses
        /\ (Resolving(h) /\ pc'[h] # pc[h])
           => \A k \in AllKeys \ {cacheKeyOf(h)} : store'[k] = store[k]]_vars

(***************************************************************************)
(* C8: for a merged pull request whose ref fetch and compare succeed, the  *)
(* record has is_in_release = true exactly when the relation is 'ahead' or *)
(* 'identical', and status 'merged' exactly when is_in_release or          *)
(* is_cherry_picked is true, 'not-yet' otherwise.                          *)
(***************************************************************************)
C8_InReleaseAndStatus ==
    \A h \in Handlers :
        Compared(h) =>
            LET r == call[h].result
                relation == call[h].compareResponse.body.status
            IN /\ r.is_in_release = (relation = "ahead" \/ relation = "identical")
               /\ r.status = IF r.is_in_release \/ r.is_cherry_picked
                             THEN "merged" ELSE "not-yet"

\* the target is ahead of the merge commit: merged, in the release, and not
\* cherry-picked although a commit of the range quotes the title
C8_Witness ==
    \E h \in Handlers :
        /\ Compared(h)
        /\ call[h].compareResponse.body.status = "ahead"
        /\ call[h].compareResponse.body.commits = <<M_title>>
        /\ call[h].result.status = "merged"
        /\ call[h].result.is_in_release
        /\ ~call[h].result.is_cherry_picked

(***************************************************************************)
(* C9: when the relation is neither 'ahead' nor 'identical',               *)
(* is_cherry_picked is true exactly when some commit of the range has a    *)
(* message containing the merge-commit SHA or the pull request's title;    *)
(* with no such commit, and with no commit at all, it is false and the     *)
(* status is 'not-yet'.                                                    *)
(***************************************************************************)
C9_CherryPickHeuristic ==
    \A h \in Handlers :
        ( /\ Compared(h)
          /\ call[h].compareResponse.body.status \notin {"ahead", "identical"} )
        => LET r == call[h].result
               prData == call[h].prResponse.body
               commits == call[h].compareResponse.body.commits
               matches == {i \in DOMAIN commits :
                              \/ Contains(commits[i], prData.merge_commit_sha)
                              \/ Contains(commits[i], prData.title)}
           IN /\ r.is_cherry_picked = (matches # {})
              /\ matches = {} => r.status = "not-yet"
              /\ matches # {} => r.status = "merged"

\* a diverged range whose second commit quotes the merge SHA inside its
\* message: merged by cherry-pick, not in the release
C9_Witness ==
    \E h \in Handlers :
        /\ Compared(h)
        /\ call[h].compareResponse.body.status = "diverged"
        /\ call[h].compareResponse.body.commits = <<M_other, M_sha>>
        /\ call[h].result.status = "merged"
        /\ call[h].result.is_cherry_picked
        /\ ~call[h].result.is_in_release

(***************************************************************************)
(* C10: when the fetched pull request is not marked merged, the resolver   *)
(* returns a 'not-merged' record without merge_commit_sha, having fetched  *)
(* nothing but the pull request.                                           *)
(***************************************************************************)
C10_NotMergedIsTerminal ==
    \A h \in Handlers :
        ( /\ Resolving(h)
          /\ call[h].prResponse.status = 200
          /\ call[h].prResponse.body # NoBody
          /\ ~call[h].prResponse.body.merged )
        => /\ pc[h] = "kv.put"
           /\ call[h].result.status = "not-merged"
           /\ "merge_commit_sha" \notin DOMAIN call[h].result
           /\ call[h].requests = <<prUrl(prNumberOf(h))>>
           /\ call[h].targetResponse = NoResponse
           /\ call[h].compareResponse = NoResponse

\* an unmerged pull request, whose response does carry a merge_commit_sha,
\* gave a 'not-merged' record after the one fetch
C10_Witness ==
    \E h \in Handlers :
        /\ pc[h] = "kv.put"
        /\ call[h].prResponse.status = 200
        /\ ~call[h].prResponse.body.merged
        /\ call[h].prResponse.body.merge_commit_sha = S_sha
        /\ call[h].result.status = "not-merged"
        /\ Len(call[h].requests) = 1

(***************************************************************************)
(* C11: the cache key is a function of (owner, name, number, ref), and no  *)
(* two distinct tuples have the same key.  The first half holds of any     *)
(* template literal.  The second does not: the key joins its parts with    *)
(* '/', 'pr-' and 'release-' and escapes none of them, so an owner 'a/b'   *)
(* with name 'c' has the key of owner 'a' with name 'b/c', and a name      *)
(* ending in '/pr-1/release-v' the key of a ref starting with              *)
(* 'v/pr-2/release-'.                                                      *)
(***************************************************************************)
C11_KeyIsInjective ==
    probe.keys # <<>> =>
        /\ probe.a = probe.b => probe.keys[1] = probe.keys[2]
        /\ probe.keys[1] = probe.keys[2] => probe.a = probe.b

(***************************************************************************)
(* Vocabulary of C12.                                                      *)
(***************************************************************************)
\* a record apart from its cached_at
WithoutStamp(r) == [f \in DOMAIN r \ {"cached_at"} |-> r[f]]

\* the record one call alone produces for (prNumber, releaseTag) from GitHub's
\* fixed state
SequentialRecord(prNumber, releaseTag) ==
    fetchPRReleaseStatus(prNumber, releaseTag,
                         upstream.pr, upstream.ref, upstream.compare)

(***************************************************************************)
(* C12: with GitHub's state held fixed, whatever the interleaving of the   *)
(* calls, every record a call is about to write, every record stored and   *)
(* every record returned to a handler is, apart from cached_at, the record *)
(* one call alone would produce for that pull request and ref.             *)
(***************************************************************************)
C12_LastWriterWinsIsHarmless ==
    /\ \A h \in Handlers :
        /\ pc[h] = "kv.put" =>
              WithoutStamp(call[h].result)
                  = SequentialRecord(prNumberOf(h), releaseTagOf(h))
        /\ \A n \in DOMAIN results[h] :
              WithoutStamp(results[h][n]) = SequentialRecord(n, releaseTagOf(h))
    /\ \A n \in PRNumbers, t \in ReleaseTags :
        LET text == store[cacheKey(S_esphome, S_esphome, n, t)]
        IN text # KvNull => WithoutStamp(JSONparse(text)) = SequentialRecord(n, t)

\* two calls on one key overlap: one is about to write the record it resolved
\* after reading no record, while the other's record, with another cached_at,
\* is in the store already
C12_Witness ==
    \E h \in Handlers :
        /\ pc[h] = "kv.put"
        /\ call[h].cached = KvNull
        /\ store[cacheKeyOf(h)] # KvNull
        /\ JSONparse(store[cacheKeyOf(h)]).cached_at # call[h].result.cached_at
        /\ JSONparse(store[cacheKeyOf(h)]).status = "merged"

(***************************************************************************)
(* Vocabulary of C13.                                                      *)
(***************************************************************************)
\* request r is a POST whose body has a non-empty release_tag and a
\* pr_numbers array
WellFormed(r) ==
    /\ r.method = "POST"
    /\ ~throwsOnRead(r.body)
    /\ r.body.release_tag.defined
    /\ r.body.release_tag.value # <<>>
    /\ r.body.pr_numbers.defined
    /\ r.body.pr_numbers.isArray

\* the response the handler owes to a request that is not well formed
Refusal(r) ==
    IF r.method = "OPTIONS" THEN [status |-> 200, body |-> "empty"]
    ELSE IF r.method # "POST" THEN [status |-> 405, body |-> "error"]
    ELSE [status |-> 400, body |-> "error"]

(***************************************************************************)
(* C13: a request that is not a POST with a non-empty release_tag and a    *)
(* pr_numbers array is refused: OPTIONS with an empty body, any other      *)
(* method but POST with 405, a POST without release_tag or without a       *)
(* pr_numbers array with 400; and it reads and writes no cache key and     *)
(* starts no call, so that only a well-formed POST is found at a cache     *)
(* read, at an upstream fetch or at a cache write, and the store changes   *)
(* only in the kv.put step of such a request.  A POST whose body is not    *)
(* JSON, is empty or is null refutes the 400: it has no release_tag, and   *)
(* lines 28-29 throw on it before the test of line 31, so that the catch   *)
(* answers 500.  The rest holds.                                           *)
(***************************************************************************)
C13_OnlyValidPostsReachTheCache ==
    [][/\ \A h \in Handlers :
            /\ (pc[h] # "done" /\ pc'[h] = "done" /\ ~WellFormed(req'[h]))
               => /\ response'[h] = Refusal(req'[h])
                  /\ results'[h] = NoResults
                  /\ call'[h] = NoCall
                  /\ lastHit'[h] = NoHit
                  /\ store' = store
            /\ pc'[h] \in CallAwaits => WellFormed(req'[h])
       /\ store' # store
          => \E h \in Handlers : pc[h] = "kv.put" /\ WellFormed(req[h])]_vars

(***************************************************************************)
(* Vocabulary of C14.                                                      *)
(***************************************************************************)
\* request h takes a step of its own that does not end in the 500 response
StepsOn(h) ==
    /\ pc'[h] # pc[h] \/ idx'[h] # idx[h]
    /\ response'[h].status # 500

\* the record the resolver returns for the responses held in call c
ResolverRecord(h, c) ==
    fetchPRReleaseStatus(prNumberOf(h), releaseTagOf(h),
                         c.prResponse, c.targetResponse, c.compareResponse)

(***************************************************************************)
(* C14: the frame of checkPRInRelease.  A call that returns from its gate  *)
(* returns the record read, fetches nothing and leaves the store as it is. *)
(* A call that does not enters the resolver, once; the steps of the        *)
(* resolver leave the store as it is; when the resolver returns, its       *)
(* record, whatever the status, is stamped with the time of that moment,   *)
(* which is when kv.put is issued; and the step that ends kv.put writes    *)
(* that very record under the call's own key and no other, returns it and  *)
(* ends the call.  No other step changes the store.  (A call that an       *)
(* exception ends writes nothing; that is the 500 response of C19.)        *)
(***************************************************************************)
C14_FrameOfCheckPRInRelease ==
    [][/\ \A h \in Handlers :
            /\ (pc[h] = "kv.get" /\ StepsOn(h))
               => \/ GateHit(h) /\ call'[h] = NoCall
                  \/ GateMiss(h) /\ store' = store
            /\ (InResolver(h) /\ StepsOn(h))
               => /\ store' = store
                  /\ pc'[h] \in (ResolverAwaits \ {"fetch.pr"}) \cup {"kv.put"}
                  /\ pc'[h] = "kv.put"
                     => /\ WithoutStamp(call'[h].result) = ResolverRecord(h, call'[h])
                        /\ DateParse(call'[h].result.cached_at) = now
            /\ (pc[h] = "kv.put" /\ StepsOn(h))
               => /\ store' = [store EXCEPT ![cacheKeyOf(h)] =
                                    JSONstringify(call[h].result)]
                  /\ JSONparse(store'[cacheKeyOf(h)]) = call[h].result
                  /\ results'[h][prNumberOf(h)] = call[h].result
                  /\ call'[h] = NoCall
                  /\ pc'[h] \in {"kv.get", "done"}
       /\ store' # store
          => \E h \in Handlers : pc[h] = "kv.put" /\ StepsOn(h)]_vars

\* a request has returned an 'error' record that its call resolved and wrote
\* a minute before the staleness window's end, and nothing else is stored
C14_Witness ==
    \E h \in Handlers :
        /\ pc[h] = "done"
        /\ response[h].status = 200
        /\ \E n \in DOMAIN results[h] :
            LET k == cacheKey(S_esphome, S_esphome, n, releaseTagOf(h))
            IN /\ results[h][n].status = "error"
               /\ DateParse(results[h][n].cached_at) = StaleMs - 60 * 1000
               /\ store[k] = JSONstringify(results[h][n])
               /\ \A j \in AllKeys \ {k} : store[j] = KvNull

(***************************************************************************)
(* Vocabulary of C15.                                                      *)
(***************************************************************************)
\* the responses the resolver has got so far, in the order of its calls
Answered(c) ==
    SelectSeq(<<c.prResponse, c.targetResponse, c.compareResponse>>,
              LAMBDA r : r # NoResponse)

\* s is the start of t
IsPrefix(s, t) == Len(s) <= Len(t) /\ s = SubSeq(t, 1, Len(s))

(***************************************************************************)
(* C15: at every moment of a resolution the upstream calls made so far are *)
(* the pull-request fetch, then the ref fetch, then the compare, each at   *)
(* most once and every one but the call awaited answered; and a call       *)
(* answered without success is the last call: the resolver has returned    *)
(* an 'error' record right after it, without a retry and without a later   *)
(* call.                                                                   *)
(***************************************************************************)
C15_CallsInOrderWithoutRetry ==
    \A h \in Handlers :
        Resolving(h) =>
            LET c == call[h]
                made == Len(c.requests)
                got == Answered(c)
            IN /\ made \in 1..3
               /\ c.requests[1] = prUrl(prNumberOf(h))
               /\ made >= 2 => c.requests[2] = targetUrl(releaseTagOf(h))
               /\ made = 3 =>
                    /\ c.prResponse.status \in 200..299
                    /\ c.targetResponse.status \in 200..299
                    /\ c.requests[3] = compareUrl(c.prResponse.body.merge_commit_sha,
                                                  c.targetResponse.body.object.sha)
               /\ IsPrefix(got, <<c.prResponse, c.targetResponse, c.compareResponse>>)
               /\ Len(got) = IF pc[h] \in {"fetch.pr", "fetch.ref", "fetch.compare"}
                             THEN made - 1 ELSE made
               /\ \A i \in DOMAIN got :
                    ~(got[i].status \in 200..299) =>
                        /\ i = made
                        /\ pc[h] = "kv.put"
                        /\ c.result.status = "error"

\* the ref fetch of a merged pull request failed: two calls made, in order,
\* no compare, and the 'error' record returned
C15_Witness ==
    \E h \in Handlers :
        /\ pc[h] = "kv.put"
        /\ call[h].requests = <<prUrl(prNumberOf(h)), targetUrl(releaseTagOf(h))>>
        /\ call[h].prResponse.status = 200
        /\ call[h].targetResponse.status = 404
        /\ call[h].compareResponse = NoResponse
        /\ call[h].result.status = "error"

(***************************************************************************)
(* Vocabulary of C16.                                                      *)
(***************************************************************************)
\* the last three characters of s are d, e, v
HasDevSuffix(s) ==
    /\ Len(s) >= 3
    /\ s[Len(s) - 2] = "d"
    /\ s[Len(s) - 1] = "e"
    /\ s[Len(s)] = "v"

GitRefHeadsDev ==
    <<"g", "i", "t", "/", "r", "e", "f", "/", "h", "e", "a", "d", "s", "/", "d", "e", "v">>

GitRefTags ==
    <<"g", "i", "t", "/", "r", "e", "f", "/", "t", "a", "g", "s", "/">>

(***************************************************************************)
(* C16: for a merged pull request the resolver fetches git/ref/heads/dev   *)
(* and reports target_type 'branch' exactly when the ref ends in 'dev',    *)
(* whatever stands before the suffix, and fetches git/ref/tags/ followed   *)
(* by the ref and reports 'tag' for every other ref, one with 'dev' in     *)
(* front included; and the cache gate takes a ref for a moving branch, so  *)
(* that it returns an 'error' or 'not-merged' record cached this instant,  *)
(* for exactly the same refs.                                              *)
(***************************************************************************)
C16_TargetBySuffixAlone ==
    LET tag == probe.a.releaseTag
    IN /\ probe.target # <<>> =>
            probe.target = IF HasDevSuffix(tag)
                           THEN <<GitRefHeadsDev, "branch">>
                           ELSE <<GitRefTags \o tag, "tag">>
       /\ probe.gate # <<>> => probe.gate[1] = HasDevSuffix(tag)

\* the ref '1dev' has been resolved against heads/dev as a branch, and the
\* gate has returned a record cached for it
C16_Witness ==
    /\ probe.a # <<>>
    /\ probe.a.releaseTag = S_1dev
    /\ probe.target = <<GitRefHeadsDev, "branch">>
    /\ probe.gate = <<TRUE>>

(***************************************************************************)
(* Vocabulary of C17.                                                      *)
(***************************************************************************)
ResolutionFields ==
    {"target_type", "merge_commit_sha", "pr_merged_at", "is_in_release",
     "is_cherry_picked"}

\* record r has the members its status calls for, and echoes the inputs
WellShaped(r, prNumber, releaseTag) ==
    /\ r.status \in Statuses
    /\ {"pr_number", "release_tag"} \subseteq DOMAIN r
    /\ r.pr_number = prNumber
    /\ r.release_tag = releaseTag
    /\ \A f \in ResolutionFields :
        f \in DOMAIN r <=> r.status \in {"merged", "not-yet"}
    /\ "error" \in DOMAIN r <=> r.status = "error"
    /\ "message" \in DOMAIN r <=> r.status = "not-merged"

(***************************************************************************)
(* C17: every record the resolver has returned, every record in the store  *)
(* and every record handed to a request has one of the four statuses,      *)
(* echoes pr_number and release_tag, has target_type, merge_commit_sha,    *)
(* pr_merged_at, is_in_release and is_cherry_picked exactly when its       *)
(* status is 'merged' or 'not-yet', has error exactly when it is 'error'   *)
(* and message exactly when it is 'not-merged'.                            *)
(***************************************************************************)
C17_RecordShapes ==
    /\ \A h \in Handlers :
        /\ pc[h] = "kv.put" =>
              WellShaped(call[h].result, prNumberOf(h), releaseTagOf(h))
        /\ \A n \in DOMAIN results[h] :
              WellShaped(results[h][n], n, releaseTagOf(h))
    /\ \A n \in PRNumbers, t \in ReleaseTags :
        LET text == store[cacheKey(S_esphome, S_esphome, n, t)]
        IN text # KvNull => WellShaped(JSONparse(text), n, t)

\* the compare of a merged pull request failed: the 'error' record returned
\* has no merge_commit_sha, although the resolver had read one, and an
\* 'error' record is in the store
C17_Witness ==
    \E h \in Handlers :
        /\ pc[h] = "kv.put"
        /\ call[h].prResponse.status = 200
        /\ call[h].prResponse.body.merged
        /\ call[h].prResponse.body.merge_commit_sha = S_sha
        /\ call[h].compareResponse.status = 500
        /\ call[h].result.status = "error"
        /\ "merge_commit_sha" \notin DOMAIN call[h].result
        /\ \E k \in AllKeys : statusOf(store[k]) = "error"

(***************************************************************************)
(* Vocabulary of C18.                                                      *)
(***************************************************************************)
\* the two flags of record r agree with its status
FlagsAgree(r) ==
    /\ r.status = "merged" =>
          /\ r.is_in_release \/ r.is_cherry_picked
          /\ ~(r.is_in_release /\ r.is_cherry_picked)
    /\ r.status = "not-yet" => ~r.is_in_release /\ ~r.is_cherry_picked

(***************************************************************************)
(* C18: in every record the resolver has returned, and so in every record  *)
(* stored or handed to a request, is_in_release and is_cherry_picked are   *)
(* never both true: a 'merged' record has exactly one of them true and a   *)
(* 'not-yet' record has neither, also when a commit of a range that is     *)
(* ahead quotes the title.                                                 *)
(***************************************************************************)
C18_FlagsAreExclusive ==
    /\ \A h \in Handlers :
        /\ pc[h] = "kv.put" => FlagsAgree(call[h].result)
        /\ \A n \in DOMAIN results[h] : FlagsAgree(results[h][n])
    /\ \A k \in AllKeys : store[k] # KvNull => FlagsAgree(JSONparse(store[k]))

\* a stored record is 'merged' by ancestry alone, and a request was handed a
\* record 'merged' by cherry-pick alone
C18_Witness ==
    /\ \E k \in AllKeys :
        /\ statusOf(store[k]) = "merged"
        /\ JSONparse(store[k]).is_in_release
        /\ ~JSONparse(store[k]).is_cherry_picked
    /\ \E h \in Handlers : \E n \in DOMAIN results[h] :
        /\ results[h][n].status = "merged"
        /\ results[h][n].is_cherry_picked
        /\ ~results[h][n].is_in_release

(***************************************************************************)
(* Vocabulary of C19.                                                      *)
(***************************************************************************)
\* request h is suspended at an await of the call for its idx-th number
Awaiting(h) == pc[h] \in CallAwaits

(***************************************************************************)
(* C19: when the call for the i-th number of a batch ends in an exception  *)
(* (kv.get, a fetch or kv.put rejects), the request ends at once with the  *)
(* 500 response, whose body is the error and none of the records gathered  *)
(* so far; the loop stays at i, and an ended request takes no further      *)
(* step, so the numbers after the i-th are never processed; and the store  *)
(* is left as it is, with the records written for the numbers before the   *)
(* i-th.                                                                   *)
(***************************************************************************)
C19_FailureEndsTheBatch ==
    [][\A h \in Handlers :
        /\ (Awaiting(h) /\ response'[h].status = 500)
           => /\ pc'[h] = "done"
              /\ response'[h] = [status |-> 500, body |-> "error"]
              /\ results'[h] = NoResults
              /\ idx'[h] = idx[h]
              /\ store' = store
        /\ pc[h] = "done"
           => /\ pc'[h] = "done"
              /\ response'[h] = response[h]
              /\ idx'[h] = idx[h]
              /\ results'[h] = results[h]]_vars

\* the only request so far, for two numbers, ended in 500 while its second
\* number was processed, and the record it wrote for the first is in the
\* store
C19_Witness ==
    \E h \in Handlers :
        /\ pc[h] = "done"
        /\ response[h].status = 500
        /\ idx[h] = 2
        /\ Len(prNumbersOf(h)) = 2
        /\ prNumbersOf(h)[1] # prNumbersOf(h)[2]
        /\ store[cacheKey(repoOwnerOf(h), repoNameOf(h), prNumbersOf(h)[1],
                          releaseTagOf(h))] # KvNull
        /\ \A g \in Handlers \ {h} : pc[g] = "idle"

====
